---- MODULE Spec2Model ----
(***************************************************************************)
(* One node of p2pmsg-lib (src/p2pmsg-lib/src/client.rs): the connection   *)
(* handlers spawned by handle_connection, the process-wide registry        *)
(* OPEN_CONNECTION (OpenConnections.sinks behind a tokio RwLock), the      *)
(* bounded mpsc channel tx/rx and the receiving_loop of run_client.        *)
(* The remote ends are the environment: what reader.next() yields and      *)
(* whether a socket write succeeds are chosen nondeterministically.        *)
(***************************************************************************)
EXTENDS Naturals, Sequences, FiniteSets

(* ------------------------------ bounds --------------------------------- *)
\* connections the node accepts or dials during a run
NConns == 2
\* results of reader.next() consumed during a run, over all connections
MaxReads == 3
\* capacity of the inbound mpsc channel in the model (1024 in the source)
MaxInbox == 2

Conns == 1..NConns
\* peer addresses: connections may report the same one (a peer listed twice)
Addrs == Conns

\* protocol/message.rs: enum Message (the Hello text is not inspected anywhere)
Message == {"Hello", "Ping", "Pong", "Terminate"}
\* what reader.next() can yield: Some(Ok(m)), Some(Err(e)), None
ReadItem == Message \cup {"Err", "Eof"}

VARIABLES
  peer,        \* peer[c]: socket.peer_addr() of connection c
  pc,          \* pc[c]: await point of the task of connection c
  writer,      \* writer[c]: the handler task holds the write half in a local
  terminator,  \* terminator[c]: state of the oneshot channel of connection c
  first,       \* first[c]: what the first reader.next() of c yielded
  nread,       \* number of reader.next() results consumed so far
  pend,        \* pend[c]: message of the tx.send the handler awaits
  sock,        \* sock[c]: write calls made on the socket: <<message, ok>>
  shut,        \* shut[c]: number of shutdown(Both) calls on the socket
  sinks,       \* OPEN_CONNECTION.sinks: set of entries [adr, conn]
  lock,        \* holder of the RwLock write guard across an await
  rx,          \* inbound channel: the pairs [msg, peer], each with the
               \* connection (conn) whose handler sent it
  dpc,         \* await point of receiving_loop
  dconn,       \* connection whose writer receiving_loop is writing to
  dres,        \* what the last OPEN_CONNECTION.send found under the address
  removed,     \* removed[c]: number of remove() calls that returned c's entry
  lastop       \* lastop[a]: last registry mutation on address a

vars == <<peer, pc, writer, terminator, first, nread, pend, sock, shut, sinks, lock,
          rx, dpc, dconn, dres, removed, lastop>>

(* ----------------------------- registry -------------------------------- *)
Entry(a, c) == [adr |-> a, conn |-> c]

\* a lookup that falls back to the other connections when the key is absent
get_mut_any(s, a) == IF {e \in s : e.adr = a} = {} THEN s ELSE {e \in s : e.adr = a}

\* HashMap::get_mut (line 74): the entry stored under key a, if any
get_mut(s, a) == {e \in s : e.adr = a}

\* the value HashMap::insert displaces, the value HashMap::remove returns
Stored(s, a) == {e \in s : e.adr = a}

\* an insert that keeps the value already stored under the key
HashMapInsertDup(s, a, c) == s \cup {Entry(a, c)}

\* HashMap::insert: the value stored under the key is replaced
HashMapInsert(s, a, c) == {e \in s : e.adr # a} \cup {Entry(a, c)}

\* a remove that leaves the entry in the map
HashMapRemoveNone(s, a) == s

\* HashMap::remove: the map without key a
HashMapRemove(s, a) == {e \in s : e.adr # a}

\* dropping ActivePeer values: their oneshot senders are dropped unsent, the
\* receivers see RecvError; the write halves are dropped with them
DropPeers(t, es) ==
  [c \in Conns |-> IF (\E e \in es : e.conn = c) /\ t[c] = "open"
                   THEN "dropped" ELSE t[c]]

\* a close that fails as soon as the handler has left its loop
close_left_loop(t, c, alive) ==
  [t EXCEPT ![c] = IF alive /\ pc[c] # "remove" THEN "sent" ELSE "dropped"]

\* ActivePeer::close: oneshot send of the writer; with the receiver gone the
\* send fails and the write half is dropped
close(t, c, alive) ==
  [t EXCEPT ![c] = IF alive THEN "sent" ELSE "dropped"]

\* the result of OPEN_CONNECTION.send's lookup for address a
Found(r, a) == [r |-> r, to |-> a]

Init ==
  /\ peer \in [Conns -> Addrs]
  \* addresses are numbered in the order connections first report them
  /\ \A c \in Conns : \A a \in 1..(peer[c] - 1) : \E b \in 1..(c - 1) : peer[b] = a
  /\ pc = [c \in Conns |-> "idle"]
  /\ writer = [c \in Conns |-> FALSE]
  /\ terminator = [c \in Conns |-> "open"]
  /\ first = [c \in Conns |-> "none"]
  /\ nread = 0
  /\ pend = [c \in Conns |-> "none"]
  /\ sock = [c \in Conns |-> <<>>]
  /\ shut = [c \in Conns |-> 0]
  /\ sinks = {}
  /\ lock = "free"
  /\ rx = <<>>
  /\ dpc = "recv"
  /\ dconn = 0
  /\ dres = Found("none", 0)
  /\ removed = [c \in Conns |-> 0]
  /\ lastop = [a \in Addrs |-> "none"]

\* the values the state takes
TypeOK ==
  /\ peer \in [Conns -> Addrs]
  /\ pc \in [Conns -> {"idle", "hello", "handshake", "add", "loop", "fwd",
                       "term", "remove", "done"}]
  /\ writer \in [Conns -> BOOLEAN]
  /\ terminator \in [Conns -> {"open", "sent", "taken", "dropped", "lost"}]
  /\ first \in [Conns -> ReadItem \cup {"none"}]
  /\ nread \in 0..MaxReads
  /\ pend \in [Conns -> Message \cup {"none"}]
  /\ \A c \in Conns : \A i \in 1..Len(sock[c]) :
       sock[c][i] \in {"Hello", "Pong", "Terminate"} \X BOOLEAN
  /\ shut \in [Conns -> Nat]
  /\ sinks \subseteq [adr : Addrs, conn : Conns]
  /\ lock \in {"free", "dispatch"}
  /\ Len(rx) <= MaxInbox
  /\ \A i \in 1..Len(rx) : rx[i] \in [msg : Message, peer : Addrs, conn : Conns]
  /\ dpc \in {"recv", "send"}
  /\ dconn \in Conns \cup {0}
  /\ dres \in [r : {"none", "NotAvailable", "Some"}, to : Addrs \cup {0}]
  /\ removed \in [Conns -> Nat]
  /\ lastop \in [Addrs -> {"none", "add", "remove"}]

(* ----------------------- handle_connection ----------------------------- *)
\* lines 81-94, 149: split the socket, create the oneshot channel, spawn the
\* task; the task starts writing its Hello
spawn(c) ==
  /\ pc[c] = "idle"
  /\ pc' = [pc EXCEPT ![c] = "hello"]
  /\ writer' = [writer EXCEPT ![c] = TRUE]
  /\ UNCHANGED <<peer, terminator, first, nread, pend, sock, shut, sinks, lock, rx,
                 dpc, dconn, dres, removed, lastop>>

\* lines 94-96, 145: writer.send(my_hello) completes; on Err the task ends and
\* drops writer, terminator and terminator_receiver
hello_sent(c, ok) ==
  /\ pc[c] = "hello"
  /\ sock' = [sock EXCEPT ![c] = Append(@, <<"Hello", ok>>)]
  /\ pc' = [pc EXCEPT ![c] = IF ok THEN "handshake" ELSE "done"]
  /\ writer' = [writer EXCEPT ![c] = ok]
  /\ terminator' = [terminator EXCEPT ![c] = IF ok THEN @ ELSE "dropped"]
  /\ UNCHANGED <<peer, first, nread, pend, shut, sinks, lock, rx, dpc, dconn, dres,
                 removed, lastop>>

\* the task of connection c ends: its locals are dropped (an unmoved writer,
\* the oneshot receiver with a write half still inside it)
TaskEnd(t, c) == [t EXCEPT ![c] = IF @ = "sent" THEN "lost" ELSE @]

\* what reader.next() may yield next: after end of stream only end of stream
CanRead(c, item) ==
  /\ nread < MaxReads
  /\ first[c] = "Eof" => item = "Eof"

\* a handshake that accepts any decoded message
IsAnyMessage(item) == item \in Message

\* line 97: the pattern Some(Ok(Message::Hello { msg }))
IsHello(item) == item = "Hello"

\* a handshake that hands the message it read on to tx.send
handshake_forward(c, item) ==
  /\ pc[c] = "handshake"
  /\ CanRead(c, item)
  /\ first' = [first EXCEPT ![c] = item]
  /\ nread' = nread + 1
  /\ pend' = [pend EXCEPT ![c] = IF item \in Message THEN item ELSE "none"]
  /\ pc' = [pc EXCEPT ![c] = IF item \in Message THEN "fwd" ELSE "loop"]
  /\ UNCHANGED <<peer, writer, terminator, sock, shut, sinks, lock, rx,
                 dpc, dconn, dres, removed, lastop>>

\* lines 96-102: the first reader.next(); a Hello goes on to add_new, anything
\* else is logged ("invalid handshake") and control falls to the loop
handshake(c, item) ==
  /\ pc[c] = "handshake"
  /\ CanRead(c, item)
  /\ first' = [first EXCEPT ![c] = item]
  /\ nread' = nread + 1
  /\ pc' = [pc EXCEPT ![c] = IF IsHello(item) THEN "add" ELSE "loop"]
  /\ UNCHANGED <<peer, writer, terminator, pend, sock, shut, sinks, lock, rx,
                 dpc, dconn, dres, removed, lastop>>

\* lines 63-66, 99: OPEN_CONNECTION.add_new(peer, writer, terminator) under the
\* write lock; an entry already stored under the address is replaced and dropped
add_new(c) ==
  /\ pc[c] = "add"
  /\ lock = "free"
  /\ sinks' = HashMapInsert(sinks, peer[c], c)
  /\ terminator' = DropPeers(terminator, Stored(sinks, peer[c]))
  /\ writer' = [writer EXCEPT ![c] = FALSE]
  /\ lastop' = [lastop EXCEPT ![peer[c]] = "add"]
  /\ pc' = [pc EXCEPT ![c] = "loop"]
  /\ UNCHANGED <<peer, first, nread, pend, sock, shut, lock, rx, dpc, dconn, dres,
                 removed>>

\* where the loop goes after reader.next() yielded item (lines 109-119)
AfterRead(item) ==
  IF item \in Message THEN "fwd" ELSE IF item = "Err" THEN "loop" ELSE "remove"

\* lines 108-119: select resolves Left: a message is handed to tx.send, an
\* error is logged, end of stream breaks
loop_read(c, item) ==
  /\ pc[c] = "loop"
  /\ CanRead(c, item)
  /\ nread' = nread + 1
  /\ pend' = [pend EXCEPT ![c] = IF item \in Message THEN item ELSE "none"]
  /\ pc' = [pc EXCEPT ![c] = AfterRead(item)]
  /\ UNCHANGED <<peer, writer, terminator, first, sock, shut, sinks, lock, rx, dpc,
                 dconn, dres, removed, lastop>>

\* what tx.send((m, peer)) of the handler of c puts into the channel
Pair(c) == [msg |-> pend[c], peer |-> peer[c], conn |-> c]

\* a channel that hands over the newest pair first
forward_front(c) ==
  /\ pc[c] = "fwd"
  /\ Len(rx) < MaxInbox
  /\ rx' = <<Pair(c)>> \o rx
  /\ pend' = [pend EXCEPT ![c] = "none"]
  /\ pc' = [pc EXCEPT ![c] = "loop"]
  /\ UNCHANGED <<peer, writer, terminator, first, nread, sock, shut, sinks, lock, dpc,
                 dconn, dres, removed, lastop>>

\* line 111: tx.send((m, peer)) completes when the channel has room
forward(c) ==
  /\ pc[c] = "fwd"
  /\ Len(rx) < MaxInbox
  /\ rx' = Append(rx, Pair(c))
  /\ pend' = [pend EXCEPT ![c] = "none"]
  /\ pc' = [pc EXCEPT ![c] = "loop"]
  /\ UNCHANGED <<peer, writer, terminator, first, nread, sock, shut, sinks, lock, dpc,
                 dconn, dres, removed, lastop>>

\* lines 120-121: select resolves Right(Ok(writer)): the handler owns the write
\* half again and starts writing Terminate
loop_terminator(c) ==
  /\ pc[c] = "loop"
  /\ terminator[c] = "sent"
  /\ terminator' = [terminator EXCEPT ![c] = "taken"]
  /\ writer' = [writer EXCEPT ![c] = TRUE]
  /\ pc' = [pc EXCEPT ![c] = "term"]
  /\ UNCHANGED <<peer, first, nread, pend, sock, shut, sinks, lock, rx, dpc, dconn,
                 dres, removed, lastop>>

\* lines 132-135: select resolves Right(Err): the sender was dropped unsent
loop_terminator_err(c) ==
  /\ pc[c] = "loop"
  /\ terminator[c] = "dropped"
  /\ pc' = [pc EXCEPT ![c] = "remove"]
  /\ UNCHANGED <<peer, writer, terminator, first, nread, pend, sock, shut, sinks, lock,
                 rx, dpc, dconn, dres, removed, lastop>>

\* the terminator branch without the shutdown call
terminate_sent_noshutdown(c, ok) ==
  /\ pc[c] = "term"
  /\ sock' = [sock EXCEPT ![c] = Append(@, <<"Terminate", ok>>)]
  /\ writer' = [writer EXCEPT ![c] = FALSE]
  /\ pc' = [pc EXCEPT ![c] = "remove"]
  /\ UNCHANGED <<peer, terminator, first, nread, pend, shut, sinks, lock, rx,
                 dpc, dconn, dres, removed, lastop>>

\* lines 121-130: writer.send(Terminate) completes (an error is only logged),
\* reunite consumes both halves, the socket is shut down, break
terminate_sent(c, ok) ==
  /\ pc[c] = "term"
  /\ sock' = [sock EXCEPT ![c] = Append(@, <<"Terminate", ok>>)]
  /\ writer' = [writer EXCEPT ![c] = FALSE]
  /\ shut' = [shut EXCEPT ![c] = @ + 1]
  /\ pc' = [pc EXCEPT ![c] = "remove"]
  /\ UNCHANGED <<peer, terminator, first, nread, pend, sinks, lock, rx, dpc, dconn,
                 dres, removed, lastop>>

\* removed[] after remove() returned the entries es
Returned(es) ==
  [c \in Conns |-> IF \E e \in es : e.conn = c THEN removed[c] + 1 ELSE removed[c]]

\* lines 68-71, 141-144: OPEN_CONNECTION.remove(&peer) under the write lock; the
\* returned entry _p is dropped and the task ends
handler_remove(c) ==
  /\ pc[c] = "remove"
  /\ lock = "free"
  /\ sinks' = HashMapRemove(sinks, peer[c])
  /\ removed' = Returned(Stored(sinks, peer[c]))
  /\ lastop' = [lastop EXCEPT ![peer[c]] = "remove"]
  /\ terminator' = TaskEnd(DropPeers(terminator, Stored(sinks, peer[c])), c)
  /\ writer' = [writer EXCEPT ![c] = FALSE]
  /\ pc' = [pc EXCEPT ![c] = "done"]
  /\ UNCHANGED <<peer, first, nread, pend, sock, shut, lock, rx, dpc, dconn, dres>>

(* --------------------- run_client: receiving_loop ---------------------- *)
\* lines 174, 178-180: Hello is only logged
dispatch_Hello ==
  /\ dpc = "recv" /\ rx # <<>> /\ Head(rx).msg = "Hello"
  /\ rx' = Tail(rx)
  /\ UNCHANGED <<peer, pc, writer, terminator, first, nread, pend, sock, shut, sinks,
                 lock, dpc, dconn, dres, removed, lastop>>

\* a dispatch loop that closes the connection of a peer that sends Pong
dispatch_Pong_close ==
  /\ dpc = "recv" /\ rx # <<>> /\ Head(rx).msg = "Pong"
  /\ lock = "free"
  /\ rx' = Tail(rx)
  /\ sinks' = HashMapRemove(sinks, Head(rx).peer)
  /\ removed' = [c \in Conns |-> IF \E e \in Stored(sinks, Head(rx).peer) : e.conn = c
                                  THEN removed[c] + 1 ELSE removed[c]]
  /\ lastop' = [lastop EXCEPT ![Head(rx).peer] = "remove"]
  /\ terminator' = [c \in Conns |->
                      IF \E e \in Stored(sinks, Head(rx).peer) : e.conn = c
                      THEN "sent" ELSE terminator[c]]
  /\ UNCHANGED <<peer, pc, writer, first, nread, pend, sock, shut, lock, dpc, dconn,
                 dres>>

\* lines 174, 185-187: Pong is only logged
dispatch_Pong ==
  /\ dpc = "recv" /\ rx # <<>> /\ Head(rx).msg = "Pong"
  /\ rx' = Tail(rx)
  /\ UNCHANGED <<peer, pc, writer, terminator, first, nread, pend, sock, shut, sinks,
                 lock, dpc, dconn, dres, removed, lastop>>

\* lines 73-78, 181-184: OPEN_CONNECTION.send(peer, Pong) takes the write lock
\* and looks the address up; None is the "not available" error, logged; Some
\* starts the socket write with the lock held
dispatch_Ping ==
  /\ dpc = "recv" /\ rx # <<>> /\ Head(rx).msg = "Ping"
  /\ lock = "free"
  /\ rx' = Tail(rx)
  /\ IF get_mut(sinks, Head(rx).peer) = {}
     THEN /\ dres' = Found("NotAvailable", Head(rx).peer)
          /\ UNCHANGED <<lock, dpc, dconn>>
     ELSE /\ dres' = Found("Some", Head(rx).peer)
          /\ lock' = "dispatch"
          /\ dpc' = "send"
          /\ dconn' = (CHOOSE e \in get_mut(sinks, Head(rx).peer) : TRUE).conn
  /\ UNCHANGED <<peer, pc, writer, terminator, first, nread, pend, sock, shut, sinks,
                 removed, lastop>>

\* a send that is retried after a failed write
send_done_retry(ok) ==
  /\ dpc = "send"
  /\ sock' = [sock EXCEPT ![dconn] = Append(@, <<"Pong", ok>>)]
  /\ lock' = IF ok THEN "free" ELSE lock
  /\ dpc' = IF ok THEN "recv" ELSE dpc
  /\ dconn' = IF ok THEN 0 ELSE dconn
  /\ UNCHANGED <<peer, pc, writer, terminator, first, nread, pend, shut, sinks, rx,
                 dres, removed, lastop>>

\* a send that keeps the guard after its write
send_done_keep_guard(ok) ==
  /\ dpc = "send"
  /\ sock' = [sock EXCEPT ![dconn] = Append(@, <<"Pong", ok>>)]
  /\ lock' = lock
  /\ dpc' = "recv"
  /\ dconn' = 0
  /\ UNCHANGED <<peer, pc, writer, terminator, first, nread, pend, shut, sinks, rx,
                 dres, removed, lastop>>

\* lines 36-38, 75, 184: s.send(msg) completes, the guard is released; an
\* error is only logged
send_done(ok) ==
  /\ dpc = "send"
  /\ sock' = [sock EXCEPT ![dconn] = Append(@, <<"Pong", ok>>)]
  /\ lock' = "free"
  /\ dpc' = "recv"
  /\ dconn' = 0
  /\ UNCHANGED <<peer, pc, writer, terminator, first, nread, pend, shut, sinks, rx,
                 dres, removed, lastop>>

\* the removed entries are dropped without close()
CloseAllDrop(t, es) == DropPeers(t, es)

\* terminator[] after ap.close() on each removed entry (lines 40-42)
CloseAll(t, es) ==
  [c \in Conns |-> IF \E e \in es : e.conn = c
                   THEN close(t, c, pc[c] # "done")[c] ELSE t[c]]

\* lines 188-194: remove the sender's entry and close it
dispatch_Terminate ==
  /\ dpc = "recv" /\ rx # <<>> /\ Head(rx).msg = "Terminate"
  /\ lock = "free"
  /\ rx' = Tail(rx)
  /\ sinks' = HashMapRemove(sinks, Head(rx).peer)
  /\ removed' = Returned(Stored(sinks, Head(rx).peer))
  /\ lastop' = [lastop EXCEPT ![Head(rx).peer] = "remove"]
  /\ terminator' = CloseAll(terminator, Stored(sinks, Head(rx).peer))
  /\ UNCHANGED <<peer, pc, writer, first, nread, pend, sock, shut, lock, dpc, dconn,
                 dres>>

(* ------------------------------ claims --------------------------------- *)
\* holders of the write half of connection c: the handler's local, a registry
\* entry, the oneshot channel
Holders(c) ==
  (IF writer[c] THEN 1 ELSE 0)
  + Cardinality({e \in sinks : e.conn = c})
  + (IF terminator[c] = "sent" THEN 1 ELSE 0)

\* the write half of c does not exist: not yet split off, dropped with its
\* entry or inside the channel, consumed by reunite, or the task is over
Gone(c) ==
  \/ pc[c] \in {"idle", "done"}
  \/ terminator[c] \in {"dropped", "lost"}
  \/ terminator[c] = "taken" /\ pc[c] = "remove"

HandlerWrites(c) == pc[c] \in {"hello", "term"}
DispatchWrites(c) == dpc = "send" /\ dconn = c

\* C1: single writer. The write half of every connection has exactly one
\* holder while it exists (the handler, the registry entry, or the oneshot
\* channel carrying it back) and none once it is dropped; a task writes to the
\* socket only while it holds the write half (the dispatch loop through the
\* registry entry, under the lock), so two tasks never write concurrently.
C1_SingleWriter ==
  \A c \in Conns :
    /\ Holders(c) = (IF Gone(c) THEN 0 ELSE 1)
    /\ HandlerWrites(c) => writer[c]
    /\ DispatchWrites(c) => lock = "dispatch" /\ (\E e \in sinks : e.conn = c)
    /\ ~(HandlerWrites(c) /\ DispatchWrites(c))

\* the termination race: the dispatch loop has put the write half into the
\* terminator channel while the handler is still forwarding a later message
C1_Witness ==
  \E c \in Conns : terminator[c] = "sent" /\ pc[c] = "fwd" /\ Holders(c) = 1

Terminates(c) == {i \in 1..Len(sock[c]) : sock[c][i][1] = "Terminate"}

\* C2: termination race. Once the handler has taken the write half from the
\* terminator channel, nothing else writes to the socket; when the branch is
\* over exactly one Terminate write has been made, it is the last write on the
\* socket, and the socket was shut down exactly once.
C2_TerminationRace ==
  \A c \in Conns :
    /\ shut[c] <= 1
    /\ terminator[c] = "taken" =>
         /\ pc[c] \in {"term", "remove", "done"}
         /\ ~DispatchWrites(c)
         /\ pc[c] = "term" => Terminates(c) = {} /\ shut[c] = 0
         /\ pc[c] # "term" =>
              /\ Terminates(c) = {Len(sock[c])}
              /\ shut[c] = 1
    /\ terminator[c] # "taken" => Terminates(c) = {} /\ shut[c] = 0

\* a connection that got a Pong reply and was then terminated
C2_Witness ==
  \E c \in Conns :
    /\ terminator[c] = "taken" /\ pc[c] = "done"
    /\ Len(sock[c]) = 3 /\ sock[c][2][1] = "Pong" /\ sock[c][3][1] = "Terminate"

\* C3: handshake gate. Every registry entry is stored under the address of
\* its connection, and that connection wrote its Hello successfully and got
\* Hello as the first item of its read half before the entry was inserted.
C3_HandshakeGate ==
  \A e \in sinks :
    /\ e.adr = peer[e.conn]
    /\ Len(sock[e.conn]) >= 1 /\ sock[e.conn][1] = <<"Hello", TRUE>>
    /\ first[e.conn] = "Hello"
    /\ pc[e.conn] \in {"loop", "fwd", "remove"}

\* two connections registered under two addresses
C3_Witness == Cardinality(sinks) = 2

\* C4: handshake failure. A connection whose first read item is not Hello is
\* abandoned: it is never registered, its handler does not enter the message
\* loop, forwards nothing and takes no terminator.
C4_HandshakeFailureAbandons ==
  \A c \in Conns :
    first[c] \notin {"none", "Hello"} =>
      /\ ~(\E e \in sinks : e.conn = c)
      /\ pc[c] \notin {"loop", "fwd", "term"}

\* C5: read error closes. A read error in the message loop makes the handler
\* leave the loop and go to its closing Remove.
C5_ReadErrorCloses ==
  [][\A c \in Conns : loop_read(c, "Err") => pc'[c] = "remove"]_vars

\* the dispatch loop has removed and closed the entry of connection c
Closed(c) == terminator[c] \in {"sent", "taken", "lost"}

\* C6: closing cleans the registry. When a handler that registered ends, the
\* registry holds no entry of its connection, and its final Remove changes
\* nothing in the registry when the dispatch loop had already removed its entry.
C6_ClosingCleansRegistry ==
  /\ [](\A c \in Conns :
          pc[c] = "done" /\ first[c] = "Hello" => ~(\E e \in sinks : e.conn = c))
  /\ [][\A c \in Conns : handler_remove(c) /\ Closed(c) => sinks' = sinks]_vars

\* C7: Add precondition. add_new never runs for an address that has an entry.
C7_AddPrecondition ==
  [][\A c \in Conns : add_new(c) => Stored(sinks, peer[c]) = {}]_vars

\* C8: registry mutual exclusion. No address has two entries; no entry is
\* returned by two Removes; a SendTo finds an entry (and writes) only when the
\* last registry mutation on its address was an Add, never after a completed
\* Remove, and that entry stays in the registry for the whole write.
C8_RegistryMutex ==
  /\ \A e1, e2 \in sinks : e1.adr = e2.adr => e1 = e2
  /\ \A c \in Conns : removed[c] <= 1
  /\ dpc = "send" =>
       /\ dres.r = "Some"
       /\ Entry(dres.to, dconn) \in sinks
       /\ lastop[dres.to] = "add"

\* a Remove returned the entry of a connection and a later SendTo to its
\* address failed
C8_Witness ==
  \E c \in Conns :
    /\ removed[c] = 1 /\ lastop[peer[c]] = "remove"
    /\ dres = Found("NotAvailable", peer[c])

\* C9: SendTo on an unknown peer. A Ping whose address has no entry makes
\* send return the not-available error: no socket is written, the registry,
\* the writers and the terminators are unchanged, the lock is not kept and the
\* dispatch loop is back at rx.next().
C9_SendUnknownPeer ==
  [][dispatch_Ping /\ (\A e \in sinks : e.adr # Head(rx).peer) =>
       /\ dres' = Found("NotAvailable", Head(rx).peer)
       /\ UNCHANGED <<sock, shut, sinks, writer, terminator, pc>>
       /\ lock' = "free" /\ dpc' = "recv"]_vars

\* a failed SendTo while another address is registered
C9_Witness ==
  /\ dres.r = "NotAvailable" /\ dpc = "recv"
  /\ sinks # {} /\ Stored(sinks, dres.to) = {}

Pongs(c) == {i \in 1..Len(sock[c]) : sock[c][i][1] = "Pong"}

\* C11: Ping reaction. A (Ping, address) consumed while the address has a
\* registry entry starts one write of Pong on the writer stored under that
\* address; the write appends exactly one Pong frame to that connection and
\* nothing to any other, whether it succeeds or fails the loop is back at its
\* receive with the Ping consumed (no retry), and Pong frames are written in
\* no other way.
C11_PingReaction ==
  [][/\ \A e \in sinks :
          dispatch_Ping /\ e.adr = Head(rx).peer =>
            /\ dpc' = "send" /\ dconn' = e.conn
            /\ rx' = Tail(rx)
            /\ UNCHANGED <<sock, sinks>>
     /\ \A c \in Conns :
          Len(sock'[c]) > Len(sock[c]) /\ sock'[c][Len(sock'[c])][1] = "Pong" =>
            /\ dpc = "send" /\ dconn = c /\ Entry(dres.to, c) \in sinks
            /\ \E ok \in BOOLEAN : sock' = [sock EXCEPT ![c] = Append(@, <<"Pong", ok>>)]
            /\ dpc' = "recv"
            /\ UNCHANGED <<rx, sinks>>
     /\ dpc = "send" /\ dpc' = "recv" => Len(sock'[dconn]) > Len(sock[dconn])
     /\ \A c \in Conns : Len(sock'[c]) >= Len(sock[c]) /\ Len(sock'[c]) <= Len(sock[c]) + 1
    ]_vars

\* with two connections registered, the Pong write to one of them failed and
\* the loop is receiving again; the other connection got no Pong
C11_Witness ==
  /\ Cardinality(sinks) = 2 /\ dpc = "recv"
  /\ \E c \in Conns :
       /\ \E i \in Pongs(c) : sock[c][i] = <<"Pong", FALSE>>
       /\ \A d \in Conns \ {c} : Pongs(d) = {}

RECURSIVE MsgsOf(_, _)
\* the messages of the pairs in q that connection c sent, in order
MsgsOf(q, c) ==
  IF q = <<>> THEN <<>>
  ELSE (IF Head(q).conn = c THEN <<Head(q).msg>> ELSE <<>>) \o MsgsOf(Tail(q), c)

\* the messages connection c decoded in its loop that the dispatch loop has
\* not consumed yet: those in the channel, then the one its tx.send holds
InFlight(c) ==
  MsgsOf(rx, c) \o (IF pc[c] = "fwd" THEN <<pend[c]>> ELSE <<>>)

\* C14: per-connection ordering. Every message a handler decodes in its
\* loop (after the handshake message) joins the end of its connection's
\* messages in flight; every pair the dispatch loop consumes carries the
\* address of the connection that sent it and is the oldest message of that
\* connection still in flight; nothing else adds to, drops from or reorders
\* a connection's messages in flight.
C14_Ordering ==
  [][\A c \in Conns :
       /\ \A m \in Message :
            loop_read(c, m) => InFlight(c)' = Append(InFlight(c), m)
       /\ Len(rx') < Len(rx) /\ Head(rx).conn = c =>
            /\ Head(rx).peer = peer[c]
            /\ InFlight(c) = <<Head(rx).msg>> \o InFlight(c)'
       /\ InFlight(c)' # InFlight(c) =>
            \/ \E m \in Message : loop_read(c, m)
            \/ Len(rx') < Len(rx) /\ Head(rx).conn = c
    ]_vars

\* two different messages of one connection are in flight, the older one in
\* the channel and the newer one in the handler's tx.send
C14_Witness ==
  \E c \in Conns :
    /\ Len(InFlight(c)) = 2 /\ InFlight(c)[1] # InFlight(c)[2]
    /\ rx # <<>> /\ Head(rx).conn = c /\ pc[c] = "fwd"

\* C20: independent blocking. While the dispatch loop is blocked in a socket
\* write to one peer, a handler of a connection to another address that is at
\* its Add or at its closing Remove can complete it.
C20_IndependentBlocking ==
  \A c \in Conns :
    dpc = "send" /\ peer[c] # dres.to =>
      /\ pc[c] = "add" => ENABLED add_new(c)
      /\ pc[c] = "remove" => ENABLED handler_remove(c)

\* C21: no message before the handshake. While the handler of a connection
\* has not consumed its first message, no message of that connection is in
\* the channel or on its way there; the step that consumes the first message
\* forwards nothing; a Hello joins a connection's messages in flight only
\* when its handler reads Hello in the loop, after the first message.
C21_NoMessageBeforeHandshake ==
  /\ [](\A c \in Conns : first[c] = "none" => InFlight(c) = <<>>)
  /\ [][\A c \in Conns :
          /\ first[c] = "none" /\ first'[c] # "none" =>
               InFlight(c)' = <<>> /\ rx' = rx /\ pend' = pend
          /\ Len(InFlight(c)') > Len(InFlight(c))
             /\ InFlight(c)'[Len(InFlight(c)')] = "Hello" =>
               first[c] # "none" /\ loop_read(c, "Hello")
       ]_vars

\* the dispatch loop is about to consume a Hello: its connection passed the
\* handshake with a first Hello and the peer sent Hello again
C21_Witness ==
  /\ rx # <<>> /\ Head(rx).msg = "Hello"
  /\ first[Head(rx).conn] = "Hello"
  /\ \E e \in sinks : e.conn = Head(rx).conn

\* C22: Hello and Pong are inert at dispatch. The step in which the dispatch
\* loop consumes a (Hello, address) or (Pong, address) pair changes nothing
\* but the channel: registry, write halves, terminators, sockets and their
\* write logs, the lock and every handler stay as they are, and the loop is
\* at its receive again.
C22_HelloPongInert ==
  [][Len(rx') < Len(rx) /\ Head(rx).msg \in {"Hello", "Pong"} =>
       /\ rx' = Tail(rx)
       /\ dpc' = "recv"
       /\ UNCHANGED <<sinks, writer, terminator, sock, shut, lock, pc, pend,
                      removed, lastop, dres, dconn>>
    ]_vars

\* with two connections registered, the dispatch loop is at a Pong of one of
\* them
C22_Witness ==
  /\ Cardinality(sinks) = 2 /\ dpc = "recv" /\ lock = "free"
  /\ rx # <<>> /\ Head(rx).msg = "Pong"
  /\ \E e \in sinks : e.conn = Head(rx).conn /\ e.adr = Head(rx).peer

C25_RemoveOwnEntry ==
  [][\A c \in Conns :
       handler_remove(c) => \A e \in sinks \ sinks' : e.conn = c
    ]_vars

\* the steps receiving_loop can make on its own: consume the head of the
\* channel, complete the write it awaits
NodeDispatch ==
  \/ dispatch_Hello \/ dispatch_Pong \/ dispatch_Ping \/ dispatch_Terminate
  \/ \E ok \in BOOLEAN : send_done(ok)

\* the steps the handler task of connection c can make without a new frame
\* from its peer
NodeHandler(c) ==
  \/ (\E ok \in BOOLEAN : hello_sent(c, ok)) \/ add_new(c) \/ forward(c)
  \/ loop_terminator(c) \/ loop_terminator_err(c)
  \/ (\E ok \in BOOLEAN : terminate_sent(c, ok)) \/ handler_remove(c)

\* C27: no circular wait inside one process. The registry lock is held
\* across an await only by the dispatch loop inside its socket write, never
\* by a task that waits on the inbound channel or on a terminator channel.
\* A socket write can always complete; a dispatch loop at its receive with a
\* message in the channel can take it; a handler waiting for room in the
\* channel, or for the lock, can go on or the dispatch loop can make the step
\* that lets it go on. Under fair scheduling every message in the channel is
\* consumed and every handler waiting in tx.send gets its message placed:
\* whenever a message is in the channel or awaits room in it, the channel is
\* eventually empty with no handler waiting.
C27_NoCircularWait ==
  /\ [](/\ lock = "dispatch" <=> dpc = "send"
        /\ dpc = "send" => ENABLED (\E ok \in BOOLEAN : send_done(ok))
        /\ dpc = "recv" /\ rx # <<>> =>
             ENABLED (dispatch_Hello \/ dispatch_Pong \/ dispatch_Ping
                      \/ dispatch_Terminate)
        /\ \A c \in Conns :
             /\ pc[c] = "fwd" => ENABLED forward(c) \/ ENABLED NodeDispatch
             /\ pc[c] = "add" => ENABLED add_new(c) \/ dpc = "send"
             /\ pc[c] = "remove" => ENABLED handler_remove(c) \/ dpc = "send"
             /\ pc[c] = "loop" /\ terminator[c] = "sent" =>
                  ENABLED loop_terminator(c))
  /\ (rx # <<>> \/ \E c \in Conns : pc[c] = "fwd")
       ~> (rx = <<>> /\ \A c \in Conns : pc[c] # "fwd")

\* the channel is full and a handler waits in tx.send for room
C27_Witness ==
  /\ Len(rx) = MaxInbox /\ dpc = "recv"
  /\ \E c \in Conns : pc[c] = "fwd" /\ pend[c] \in Message

(* ---------------------- two nodes, one connection ---------------------- *)
(* Two processes running run_client: "A" accepts, "B" dials A. Each has    *)
(* its handler task for the one connection, its registry, its inbound      *)
(* channel and its receiving_loop. The transport delivers every frame      *)
(* written before the writer's socket closes, in order. Frames other than  *)
(* Hello, Pong and Terminate enter through the public OpenConnections::send.*)
(***************************************************************************)
\* calls of OpenConnections::send made from outside run_client during a run
MaxSends == 2

Nodes == {"A", "B"}
Other(n) == IF n = "A" THEN "B" ELSE "A"
\* the messages the outside calls send
SendKinds == {"Ping", "Terminate"}

VARIABLES
  hpc,       \* hpc[n]: await point of the handler task of node n
  reg,       \* reg[n]: keys of OPEN_CONNECTION.sinks of node n
  tchan,     \* tchan[n]: state of the handler's oneshot channel
  wire,      \* wire[n]: frames written by n that the other has not read yet
  closed,    \* closed[n]: n's socket is shut down or dropped
  inbox,     \* inbox[n]: inbound channel of n: sequence of messages from the peer
  disp,      \* disp[n]: await point of receiving_loop of node n
  held,      \* held[n]: message of the tx.send the handler of n awaits
  sends,     \* sends[n]: the messages outside calls of send wrote on n
  wrote,     \* wrote[n]: Pong writes completed by receiving_loop of n
  pongs      \* pongs[n]: (Pong, peer) pairs consumed by receiving_loop of n

netvars == <<hpc, reg, tchan, wire, closed, inbox, disp, held, sends, wrote, pongs>>

NetInit ==
  /\ hpc = [n \in Nodes |-> "idle"]
  /\ reg = [n \in Nodes |-> {}]
  /\ tchan = [n \in Nodes |-> "open"]
  /\ wire = [n \in Nodes |-> <<>>]
  /\ closed = [n \in Nodes |-> FALSE]
  /\ inbox = [n \in Nodes |-> <<>>]
  /\ disp = [n \in Nodes |-> "recv"]
  /\ held = [n \in Nodes |-> "none"]
  /\ sends = [n \in Nodes |-> <<>>]
  /\ wrote = [n \in Nodes |-> 0]
  /\ pongs = [n \in Nodes |-> 0]

NetTypeOK ==
  /\ hpc \in [Nodes -> {"idle", "hello", "handshake", "add", "loop", "fwd", "term",
                        "remove", "done"}]
  /\ reg \in [Nodes -> SUBSET Nodes]
  /\ tchan \in [Nodes -> {"open", "sent", "taken", "lost"}]
  /\ \A n \in Nodes : \A i \in 1..Len(wire[n]) : wire[n][i] \in Message
  /\ closed \in [Nodes -> BOOLEAN]
  /\ \A n \in Nodes : Len(inbox[n]) <= MaxInbox
                      /\ \A i \in 1..Len(inbox[n]) : inbox[n][i] \in Message
  /\ disp \in [Nodes -> {"recv", "send"}]
  /\ held \in [Nodes -> Message \cup {"none"}]
  /\ \A n \in Nodes : Len(sends[n]) <= MaxSends
                      /\ \A i \in 1..Len(sends[n]) : sends[n][i] \in SendKinds
  /\ wrote \in [Nodes -> Nat]
  /\ pongs \in [Nodes -> Nat]

\* a frame written by n: delivered unless the other end is already closed
Written(n, m) ==
  [wire EXCEPT ![n] = IF closed[Other(n)] THEN @ ELSE Append(@, m)]

\* what reader.next() of n yields now, if anything: the next frame of the
\* peer, end of stream once the peer closed and all its frames are read
Readable(n) ==
  IF wire[Other(n)] # <<>> THEN {Head(wire[Other(n)])}
  ELSE IF closed[Other(n)] THEN {"Eof"} ELSE {}

\* wire[] after n consumed item
Consumed(n, item) ==
  IF item = "Eof" THEN wire ELSE [wire EXCEPT ![Other(n)] = Tail(@)]

\* lines 81-94, 149, 163-171, 199-211: the connection is up on n's side (accept
\* on A, connect on B) and handle_connection spawns the task
net_spawn(n) ==
  /\ hpc[n] = "idle"
  /\ hpc' = [hpc EXCEPT ![n] = "hello"]
  /\ UNCHANGED <<reg, tchan, wire, closed, inbox, disp, held, sends, wrote, pongs>>

\* a handler that waits for the peer's Hello before it sends its own
net_hello_after_read(n) ==
  /\ hpc[n] = "hello"
  /\ wire[Other(n)] # <<>>
  /\ wire' = Written(n, "Hello")
  /\ hpc' = [hpc EXCEPT ![n] = "handshake"]
  /\ UNCHANGED <<reg, tchan, closed, inbox, disp, held, sends, wrote, pongs>>

\* lines 94-96: writer.send(my_hello) completes before anything is read
net_hello_sent(n) ==
  /\ hpc[n] = "hello"
  /\ wire' = Written(n, "Hello")
  /\ hpc' = [hpc EXCEPT ![n] = "handshake"]
  /\ UNCHANGED <<reg, tchan, closed, inbox, disp, held, sends, wrote, pongs>>

\* lines 96-102: the first reader.next()
net_handshake(n) ==
  /\ hpc[n] = "handshake"
  /\ \E item \in Readable(n) :
       /\ wire' = Consumed(n, item)
       /\ hpc' = [hpc EXCEPT ![n] = IF IsHello(item) THEN "add" ELSE "loop"]
  /\ UNCHANGED <<reg, tchan, closed, inbox, disp, held, sends, wrote, pongs>>

\* lines 63-66, 99: add_new under the write lock of n's registry
net_add_new(n) ==
  /\ hpc[n] = "add"
  /\ disp[n] # "send"
  /\ reg' = [reg EXCEPT ![n] = @ \cup {Other(n)}]
  /\ hpc' = [hpc EXCEPT ![n] = "loop"]
  /\ UNCHANGED <<tchan, wire, closed, inbox, disp, held, sends, wrote, pongs>>

\* lines 108-119: select resolves Left
net_loop_read(n) ==
  /\ hpc[n] = "loop"
  /\ \E item \in Readable(n) :
       /\ wire' = Consumed(n, item)
       /\ held' = [held EXCEPT ![n] = IF item \in Message THEN item ELSE "none"]
       /\ hpc' = [hpc EXCEPT ![n] = AfterRead(item)]
  /\ UNCHANGED <<reg, tchan, closed, inbox, disp, sends, wrote, pongs>>

\* line 111: tx.send((m, peer)) completes when the channel has room
net_forward(n) ==
  /\ hpc[n] = "fwd"
  /\ Len(inbox[n]) < MaxInbox
  /\ inbox' = [inbox EXCEPT ![n] = Append(@, held[n])]
  /\ held' = [held EXCEPT ![n] = "none"]
  /\ hpc' = [hpc EXCEPT ![n] = "loop"]
  /\ UNCHANGED <<reg, tchan, wire, closed, disp, sends, wrote, pongs>>

\* lines 120-121: select resolves Right(Ok(writer))
net_loop_terminator(n) ==
  /\ hpc[n] = "loop"
  /\ tchan[n] = "sent"
  /\ tchan' = [tchan EXCEPT ![n] = "taken"]
  /\ hpc' = [hpc EXCEPT ![n] = "term"]
  /\ UNCHANGED <<reg, wire, closed, inbox, disp, held, sends, wrote, pongs>>

\* a handler that answers with Terminate and stays in its loop with the
\* socket open
net_terminate_sent_continue(n) ==
  /\ hpc[n] = "term"
  /\ wire' = Written(n, "Terminate")
  /\ hpc' = [hpc EXCEPT ![n] = "loop"]
  /\ UNCHANGED <<reg, tchan, closed, inbox, disp, held, sends, wrote, pongs>>

\* lines 121-130: the Terminate write (best-effort), reunite, shutdown(Both)
net_terminate_sent(n) ==
  /\ hpc[n] = "term"
  /\ wire' = Written(n, "Terminate")
  /\ closed' = [closed EXCEPT ![n] = TRUE]
  /\ hpc' = [hpc EXCEPT ![n] = "remove"]
  /\ UNCHANGED <<reg, tchan, inbox, disp, held, sends, wrote, pongs>>

\* lines 68-71, 141-144: the closing remove; the task ends and both halves of
\* the socket are dropped with it (with the entry, or inside the channel)
net_handler_remove(n) ==
  /\ hpc[n] = "remove"
  /\ disp[n] # "send"
  /\ reg' = [reg EXCEPT ![n] = @ \ {Other(n)}]
  /\ tchan' = TaskEnd(tchan, n)
  /\ closed' = [closed EXCEPT ![n] = TRUE]
  /\ hpc' = [hpc EXCEPT ![n] = "done"]
  /\ UNCHANGED <<wire, inbox, disp, held, sends, wrote, pongs>>

\* lines 174, 178-180, 185-187: Hello and Pong are only logged
net_dispatch_log(n) ==
  /\ disp[n] = "recv" /\ inbox[n] # <<>> /\ Head(inbox[n]) \in {"Hello", "Pong"}
  /\ inbox' = [inbox EXCEPT ![n] = Tail(@)]
  /\ pongs' = [pongs EXCEPT ![n] = IF Head(inbox[n]) = "Pong" THEN @ + 1 ELSE @]
  /\ UNCHANGED <<hpc, reg, tchan, wire, closed, disp, held, sends, wrote>>

\* a receiving_loop that only logs a Ping
net_dispatch_Ping_log(n) ==
  /\ disp[n] = "recv" /\ inbox[n] # <<>> /\ Head(inbox[n]) = "Ping"
  /\ inbox' = [inbox EXCEPT ![n] = Tail(@)]
  /\ UNCHANGED <<hpc, reg, tchan, wire, closed, disp, held, sends, wrote, pongs>>

\* lines 73-78, 181-184: OPEN_CONNECTION.send(peer, Pong): with an entry the
\* write starts under the lock, without one the error is logged
net_dispatch_Ping(n) ==
  /\ disp[n] = "recv" /\ inbox[n] # <<>> /\ Head(inbox[n]) = "Ping"
  /\ inbox' = [inbox EXCEPT ![n] = Tail(@)]
  /\ disp' = [disp EXCEPT ![n] = IF Other(n) \in reg[n] THEN "send" ELSE "recv"]
  /\ UNCHANGED <<hpc, reg, tchan, wire, closed, held, sends, wrote, pongs>>

\* lines 36-38, 75, 184: the Pong write completes, the guard is released
net_send_done(n) ==
  /\ disp[n] = "send"
  /\ wire' = Written(n, "Pong")
  /\ wrote' = [wrote EXCEPT ![n] = @ + 1]
  /\ disp' = [disp EXCEPT ![n] = "recv"]
  /\ UNCHANGED <<hpc, reg, tchan, closed, inbox, held, sends, pongs>>

\* lines 188-194: remove the peer's entry and close() it: the write half goes
\* to the handler through the oneshot channel
net_dispatch_Terminate(n) ==
  /\ disp[n] = "recv" /\ inbox[n] # <<>> /\ Head(inbox[n]) = "Terminate"
  /\ inbox' = [inbox EXCEPT ![n] = Tail(@)]
  /\ reg' = [reg EXCEPT ![n] = @ \ {Other(n)}]
  /\ tchan' = [tchan EXCEPT ![n] = IF Other(n) \in reg[n] THEN "sent" ELSE @]
  /\ UNCHANGED <<hpc, wire, closed, disp, held, sends, wrote, pongs>>

\* lines 73-78: OpenConnections::send(peer, m) called from outside run_client
\* on node n while the peer is registered: lookup and write under the lock
net_api_send(n, m) ==
  /\ Len(sends["A"]) + Len(sends["B"]) < MaxSends
  /\ disp[n] # "send"
  /\ Other(n) \in reg[n]
  /\ wire' = Written(n, m)
  /\ sends' = [sends EXCEPT ![n] = Append(@, m)]
  /\ UNCHANGED <<hpc, reg, tchan, closed, inbox, disp, held, wrote, pongs>>

\* the steps of the handler task of node n
NetHandler(n) ==
  \/ net_spawn(n) \/ net_hello_sent(n) \/ net_handshake(n) \/ net_add_new(n)
  \/ net_loop_read(n) \/ net_forward(n) \/ net_loop_terminator(n)
  \/ net_terminate_sent(n) \/ net_handler_remove(n)

\* the steps of receiving_loop of node n
NetDispatch(n) ==
  \/ net_dispatch_log(n) \/ net_dispatch_Ping(n) \/ net_send_done(n)
  \/ net_dispatch_Terminate(n)

\* node n is Registered: its handler is in the message loop and its registry
\* holds exactly the entry of the peer
Registered(n) == hpc[n] \in {"loop", "fwd"} /\ reg[n] = {Other(n)}

\* C12: scenario A, handshake liveness. Both handlers send their Hello
\* before they read, so neither waits for the other: under fair scheduling
\* both are eventually Registered, each registry holding exactly one entry.
C12_HandshakeLiveness == <>(\A n \in Nodes : Registered(n))

\* both handlers are Registered and nothing else has happened yet
C12_Witness ==
  /\ \A n \in Nodes : Registered(n) /\ wire[n] = <<>> /\ sends[n] = <<>>

\* the Pings among the messages outside calls wrote on n
PingsSent(n) == Cardinality({i \in 1..Len(sends[n]) : sends[n][i] = "Ping"})

\* the connection has left the registered state on some side
Deregistered == \E n \in Nodes : tchan[n] # "open" \/ hpc[n] \in {"remove", "done"}

\* C13: scenario B, ping liveness. When a node has sent its k-th Ping to its
\* registered peer then, under fair scheduling and unless the connection
\* leaves the registered state on some side, the peer's dispatch loop
\* eventually has written k Pongs and the node's dispatch loop eventually has
\* consumed k (Pong, peer) pairs.
C13_PingLiveness ==
  \A n \in Nodes : \A k \in 1..MaxSends :
    (PingsSent(n) >= k) ~>
      (Deregistered \/ (wrote[Other(n)] >= k /\ pongs[n] >= k))

\* A sent one Ping, B wrote one Pong, A consumed it, and both are still
\* Registered
C13_Witness ==
  /\ sends["A"] = <<"Ping">> /\ wrote["B"] = 1 /\ pongs["A"] = 1
  /\ \A n \in Nodes : Registered(n)

\* node m has read a Terminate of its peer in its loop while Registered
TerminateDelivered(m) ==
  hpc[m] = "fwd" /\ held[m] = "Terminate" /\ Other(m) \in reg[m]

\* both handlers have ended and no registry holds an entry
BothClosed == \A n \in Nodes : hpc[n] = "done" /\ reg[n] = {}

\* C26: the Terminate exchange terminates. A handler writes a Terminate only
\* in the one step that follows taking the write half from its terminator
\* channel, closes its socket in that step and goes on to its closing Remove;
\* the write half is taken at most once and a handler past that step never
\* returns to its loop, so each side writes at most one Terminate in
\* response. Under fair scheduling, once a Terminate has been delivered to a
\* Registered peer, both handlers end and both registries are empty.
C26_TerminateExchange ==
  /\ [][\A n \in Nodes :
          /\ hpc'[n] = "term" /\ hpc[n] # "term" =>
               tchan[n] = "sent" /\ tchan'[n] = "taken"
          /\ tchan[n] \in {"taken", "lost"} => tchan'[n] = tchan[n]
          /\ hpc[n] = "term" /\ hpc'[n] # "term" =>
               hpc'[n] = "remove" /\ closed'[n]
          /\ hpc[n] \in {"remove", "done"} => hpc'[n] \in {"remove", "done"}
          /\ wire'[n] # wire[n] /\ sends'[n] = sends[n]
             /\ Len(wire'[n]) > Len(wire[n]) /\ wire'[n][Len(wire'[n])] = "Terminate" =>
               hpc[n] = "term" /\ hpc'[n] = "remove"
       ]_netvars
  /\ \A m \in Nodes : TerminateDelivered(m) ~> BothClosed

\* A sent one Terminate; both handlers took their write half from the
\* terminator channel, wrote their one Terminate and ended; no registry holds
\* an entry and nothing is left on the wire or in a channel
C26_Witness ==
  /\ sends["A"] = <<"Terminate">> /\ sends["B"] = <<>>
  /\ BothClosed
  /\ \A n \in Nodes : tchan[n] = "taken" /\ closed[n] /\ inbox[n] = <<>>

(* ------------------------- protocol/codec.rs --------------------------- *)
(* One MsgCodec with the write buffer of the sending side (stream) and the   *)
(* read buffer of the receiving side (buf): frames are encoded onto stream,  *)
(* arrive in buf in chunks of any size, and decode is called on buf.       *)
(***************************************************************************)
\* frames written during a run
MaxFrames == 3

NL == "\n"
QT == "\""
BS == "\\"

\* texts of Hello { msg }: a lone newline, a backslash followed by n
Texts == {<<NL>>, <<BS, "n">>}

\* protocol/message.rs: the values of enum Message
Msg(k, t) == [kind |-> k, msg |-> t]
MessageValue ==
  {Msg("Hello", t) : t \in Texts} \cup {Msg(k, <<>>) : k \in {"Ping", "Pong", "Terminate"}}

\* payloads a foreign peer may put between delimiters: nothing at all, an
\* unclosed object
RawPayloads == {<<>>, <<"{">>}
\* what is written onto the stream: encoded messages and raw frames
Items == MessageValue \cup {Msg("Raw", p) : p \in RawPayloads}

VARIABLES
  input,     \* the items the sending side writes, in order
  nenc,      \* how many of them are written so far
  stream,      \* bytes written and not yet arrived in buf
  buf,       \* the BytesMut handed to decode
  next_pos,  \* MsgCodec.next_pos
  out,       \* what the decode calls returned, need-more-bytes left out
  last       \* the last decode call: its result, the cursor it started with
             \* and how many leading bytes of buf its scan has covered

codecvars == <<input, nenc, stream, buf, next_pos, out, last>>

RECURSIVE Concat(_)
\* the concatenation of a sequence of byte strings
Concat(ss) == IF ss = <<>> THEN <<>> ELSE Head(ss) \o Concat(Tail(ss))

\* a unit variant as JSON, its quoted name: a run of bytes without a
\* delimiter, kept as one element of the byte sequence
Variant(k) == <<k>>

\* a string serializer that writes the text as it is
EscapeNone(t) == t

RECURSIVE Escape(_)
\* serde_json string escaping: newline, quote and backslash are written as
\* two-byte escapes
Escape(t) ==
  IF t = <<>> THEN <<>>
  ELSE (IF Head(t) = NL THEN <<BS, "n">>
        ELSE IF Head(t) \in {QT, BS} THEN <<BS, Head(t)>>
        ELSE <<Head(t)>>) \o Escape(Tail(t))

\* the bytes around the text of a Hello, {"Hello":{"msg":" and "}}: two runs
\* without a delimiter, each kept as one element
HelloOpen == <<"{Hello:{msg:">>
HelloClose == <<"}}">>

\* serde_json::to_string(&item) (line 21): a unit variant is its quoted name,
\* Hello is {"Hello":{"msg":"<escaped text>"}}
to_string(m) ==
  IF m.kind = "Hello" THEN HelloOpen \o Escape(m.msg) \o HelloClose
  ELSE Variant(m.kind)

RECURSIVE Unescape(_)
\* the text of a JSON string body, or failure on a raw quote, a raw control
\* byte or an unknown escape
Unescape(b) ==
  IF b = <<>> THEN [ok |-> TRUE, text |-> <<>>]
  ELSE IF Head(b) = BS
       THEN IF Len(b) < 2 \/ b[2] \notin {"n", QT, BS}
            THEN [ok |-> FALSE, text |-> <<>>]
            ELSE LET r == Unescape(SubSeq(b, 3, Len(b)))
                 IN [ok |-> r.ok, text |-> <<IF b[2] = "n" THEN NL ELSE b[2]>> \o r.text]
       ELSE IF Head(b) \in {QT, NL}
            THEN [ok |-> FALSE, text |-> <<>>]
            ELSE LET r == Unescape(Tail(b))
                 IN [ok |-> r.ok, text |-> <<Head(b)>> \o r.text]

\* serde_json::from_slice::<Message>(&data[..pos]) (line 48)
from_slice(d) ==
  IF \E k \in {"Ping", "Pong", "Terminate"} : d = Variant(k)
  THEN [ok |-> TRUE,
        msg |-> Msg(CHOOSE k \in {"Ping", "Pong", "Terminate"} : d = Variant(k), <<>>)]
  ELSE IF /\ Len(d) >= Len(HelloOpen) + Len(HelloClose)
          /\ SubSeq(d, 1, Len(HelloOpen)) = HelloOpen
          /\ SubSeq(d, Len(d) - Len(HelloClose) + 1, Len(d)) = HelloClose
          /\ Unescape(SubSeq(d, Len(HelloOpen) + 1, Len(d) - Len(HelloClose))).ok
       THEN [ok |-> TRUE,
             msg |-> Msg("Hello",
                         Unescape(SubSeq(d, Len(HelloOpen) + 1, Len(d) - Len(HelloClose))).text)]
       ELSE [ok |-> FALSE, msg |-> Msg("Err", <<>>)]

\* lines 20-30: encode appends the JSON text and one newline
encode(b, m) == b \o to_string(m) \o <<NL>>

\* what decode returns with the buffer and cursor it leaves
Decoded(r, m, b, np) == [res |-> r, msg |-> m, buf |-> b, next_pos |-> np]

\* a decode that starts its scan one byte after the cursor
decode_skip(b, np) ==
  LET hits == {i \in (np + 2)..Len(b) : b[i] = NL}
      first_nl == CHOOSE i \in hits : \A j \in hits : i <= j
      parsed == from_slice(SubSeq(b, 1, first_nl - 1))
  IN IF hits = {} THEN Decoded("None", Msg("None", <<>>), b, Len(b))
     ELSE Decoded(IF parsed.ok THEN "Some" ELSE "Err", parsed.msg,
                  SubSeq(b, first_nl + 1, Len(b)), 0)

\* a decode that leaves the delimiter in the buffer
decode_keep_delimiter(b, np) ==
  LET hits == {i \in (np + 1)..Len(b) : b[i] = NL}
      first_nl == CHOOSE i \in hits : \A j \in hits : i <= j
      parsed == from_slice(SubSeq(b, 1, first_nl - 1))
  IN IF hits = {} THEN Decoded("None", Msg("None", <<>>), b, Len(b))
     ELSE Decoded(IF parsed.ok THEN "Some" ELSE "Err", parsed.msg,
                  SubSeq(b, first_nl, Len(b)), 0)

\* a decode that leaves the cursor where it was when no delimiter is found
decode_no_advance(b, np) ==
  LET hits == {i \in (np + 1)..Len(b) : b[i] = NL}
      first_nl == CHOOSE i \in hits : \A j \in hits : i <= j
      parsed == from_slice(SubSeq(b, 1, first_nl - 1))
  IN IF hits = {} THEN Decoded("None", Msg("None", <<>>), b, np)
     ELSE Decoded(IF parsed.ok THEN "Some" ELSE "Err", parsed.msg,
                  SubSeq(b, first_nl + 1, Len(b)), 0)

\* a decode that parses before it splits the frame off
decode_parse_first(b, np) ==
  LET hits == {i \in (np + 1)..Len(b) : b[i] = NL}
      first_nl == CHOOSE i \in hits : \A j \in hits : i <= j
      parsed == from_slice(SubSeq(b, 1, first_nl - 1))
  IN IF hits = {} THEN Decoded("None", Msg("None", <<>>), b, Len(b))
     ELSE IF parsed.ok
          THEN Decoded("Some", parsed.msg, SubSeq(b, first_nl + 1, Len(b)), 0)
          ELSE Decoded("Err", parsed.msg, b, np)

\* lines 37-54: scan buf[next_pos..] for the delimiter; without one remember
\* the scanned length; with one reset the cursor, split the frame off with its
\* delimiter and parse the payload (a parse error is returned after the split)
decode(b, np) ==
  LET hits == {i \in (np + 1)..Len(b) : b[i] = NL}
      first_nl == CHOOSE i \in hits : \A j \in hits : i <= j
      parsed == from_slice(SubSeq(b, 1, first_nl - 1))
  IN IF hits = {} THEN Decoded("None", Msg("None", <<>>), b, Len(b))
     ELSE Decoded(IF parsed.ok THEN "Some" ELSE "Err", parsed.msg,
                  SubSeq(b, first_nl + 1, Len(b)), 0)

\* the frame of an item on the stream
Frame(x) == IF x.kind = "Raw" THEN x.msg \o <<NL>> ELSE encode(<<>>, x)

\* what a decode call returns for the frame of item x
Expect(x) == IF x.kind = "Raw" THEN Msg("Err", <<>>) ELSE x

CodecInit ==
  /\ input \in UNION {[1..n -> Items] : n \in 1..MaxFrames}
  /\ nenc = 0
  /\ stream = <<>>
  /\ buf = <<>>
  /\ next_pos = 0
  /\ out = <<>>
  /\ last = [res |-> "Start", from |-> 0, upto |-> 0]

CodecTypeOK ==
  /\ Len(input) \in 1..MaxFrames
  /\ nenc \in 0..Len(input)
  /\ next_pos \in 0..Len(buf)
  /\ Len(out) <= nenc
  /\ last.res \in {"Start", "None", "Some", "Err"}
  /\ last.upto \in 0..Len(buf)

\* lines 20-30: the sending side encodes its next message (a foreign peer
\* writes its raw frame)
codec_encode ==
  /\ nenc < Len(input)
  /\ stream' = stream \o Frame(input[nenc + 1])
  /\ nenc' = nenc + 1
  /\ UNCHANGED <<input, buf, next_pos, out, last>>

\* the next k bytes of the stream arrive in the read buffer (the sending side
\* has written all it writes)
codec_read(k) ==
  /\ nenc = Len(input)
  /\ k \in 1..Len(stream)
  /\ buf' = buf \o SubSeq(stream, 1, k)
  /\ stream' = SubSeq(stream, k + 1, Len(stream))
  /\ UNCHANGED <<input, nenc, next_pos, out, last>>

\* lines 37-54: a decode call; after need-more-bytes the next call comes when
\* more bytes have arrived
codec_decode ==
  /\ last.res # "None" \/ Len(buf) > next_pos
  /\ LET d == decode(buf, next_pos)
     IN /\ buf' = d.buf
        /\ next_pos' = d.next_pos
        /\ out' = IF d.res = "None" THEN out ELSE Append(out, d.msg)
        /\ last' = [res |-> d.res, from |-> next_pos,
                     upto |-> IF d.res = "None" THEN Len(buf) ELSE 0]
  /\ UNCHANGED <<input, nenc, stream>>

\* the buffer holds no delimiter
NoDelimiter(b) == \A j \in 1..Len(b) : b[j] # NL

\* the frames of items i..j of the input, concatenated
FramesOf(i, j) == Concat([k \in 1..(j - i + 1) |-> Frame(input[i + k - 1])])

\* C15: codec round trip. For every message m, encode into an empty buffer
\* gives the payload followed by exactly one newline, the payload holds no
\* newline byte, and decode on that buffer returns m, leaves the buffer empty
\* and the cursor at 0; a run that writes one message and reads it back ends
\* with that message decoded and nothing left in either buffer.
C15_RoundTrip ==
  /\ \A i \in 1..Len(input) :
       input[i] \in MessageValue =>
         /\ encode(<<>>, input[i]) = to_string(input[i]) \o <<NL>>
         /\ NoDelimiter(to_string(input[i]))
         /\ decode(encode(<<>>, input[i]), 0) = Decoded("Some", input[i], <<>>, 0)
  /\ Len(input) = 1 /\ input[1] \in MessageValue /\ Len(out) = 1 =>
       out[1] = input[1] /\ buf = <<>> /\ stream = <<>> /\ next_pos = 0

\* a Hello whose text is a newline was written, read and decoded back
C15_Witness ==
  /\ input = <<Msg("Hello", <<NL>>)>>
  /\ out = input /\ buf = <<>> /\ last.res = "Some"

\* C16: buffer accumulation. However the bytes of the stream are cut into
\* chunks, a decode call on a buffer that holds no complete frame yet returns
\* need-more-bytes and changes neither buffer nor results, and the call after
\* the chunk that completes a frame returns what one decode call with a fresh
\* cursor returns on the same buffer: the same message (the one written) and
\* the same remaining buffer.
C16_Accumulation ==
  [][codec_decode =>
       /\ NoDelimiter(buf) => last'.res = "None" /\ out' = out /\ buf' = buf
       /\ ~NoDelimiter(buf) =>
            /\ last'.res = decode(buf, 0).res /\ last'.res # "None"
            /\ buf' = decode(buf, 0).buf
            /\ out' = Append(out, decode(buf, 0).msg)
            /\ out'[Len(out')] = Expect(input[Len(out')])
    ]_codecvars

\* a Hello frame arrived in pieces: the call that returned it started from a
\* cursor left by earlier need-more-bytes calls
C16_Witness ==
  /\ input[1] = Msg("Hello", <<BS, "n">>)
  /\ out = <<input[1]>> /\ last.res = "Some" /\ last.from >= 2

AllValid == \A i \in 1..Len(input) : input[i] \in MessageValue

\* C17: multi-frame. With N valid frames on the stream, the decode calls that
\* return something return the N messages in the order written, each call
\* takes exactly one frame off the buffer, and a call on the emptied buffer
\* returns need-more-bytes and leaves it empty.
C17_MultiFrame ==
  /\ [](AllValid =>
          /\ out = [i \in 1..Len(out) |-> input[i]]
          /\ buf \o stream = FramesOf(Len(out) + 1, nenc))
  /\ [][AllValid /\ codec_decode =>
          /\ Len(out') = Len(out) + 1 => buf = Frame(input[Len(out')]) \o buf'
          /\ buf = <<>> => last'.res = "None" /\ buf' = <<>> /\ out' = out
       ]_codecvars

\* three valid frames were written and decoded, and one more call found the
\* buffer empty
C17_Witness ==
  /\ AllValid /\ Len(input) = 3 /\ out = input
  /\ last.res = "None" /\ buf = <<>> /\ stream = <<>>

\* C18: malformed-frame isolation. A decode call returns an error exactly for
\* a frame whose payload does not parse (the empty payload included), the
\* frames before and after it decode to their messages, and the failing call
\* takes the bad frame with its delimiter off the buffer and leaves the
\* cursor at 0.
C18_MalformedIsolation ==
  /\ [](\A i \in 1..Len(out) : out[i] = Expect(input[i]))
  /\ [][codec_decode /\ last'.res = "Err" =>
          /\ input[Len(out')].kind = "Raw"
          /\ out' = Append(out, Msg("Err", <<>>))
          /\ buf = Frame(input[Len(out')]) \o buf'
          /\ next_pos' = 0
       ]_codecvars

\* a lone delimiter between two valid frames: message, one error, message
C18_Witness ==
  /\ Len(input) = 3 /\ input[1] \in MessageValue /\ input[3] \in MessageValue
  /\ input[2] = Msg("Raw", <<>>)
  /\ out = <<input[1], Msg("Err", <<>>), input[3]>> /\ buf = <<>>

\* C24: codec scan cursor. In every state the cursor is at most the buffer
\* length, no byte before the cursor is a delimiter, and every byte a decode
\* call has scanned and left in the buffer lies before the cursor. A decode
\* call starts its scan at the cursor; on a buffer without delimiter (the
\* empty buffer included) it returns None, keeps the buffer and sets the cursor
\* to the buffer length; on a buffer whose first delimiter is byte p (offset
\* p - 1) it takes bytes 1..p off the buffer, returns one result and resets
\* the cursor to 0. So no byte is scanned twice.
C24_ScanCursor ==
  /\ [](/\ next_pos <= Len(buf)
        /\ \A j \in 1..next_pos : j <= Len(buf) => buf[j] # NL
        /\ last.upto <= next_pos)
  /\ [][/\ UNCHANGED <<nenc, stream>>
        /\ <<buf, next_pos, out, last>>' # <<buf, next_pos, out, last>>
        => /\ last'.from = next_pos
           /\ last.upto <= next_pos
           /\ NoDelimiter(buf) =>
                /\ last'.res = "None" /\ out' = out /\ buf' = buf
                /\ next_pos' = Len(buf) /\ last'.upto = Len(buf)
           /\ ~NoDelimiter(buf) =>
                LET p == CHOOSE i \in 1..Len(buf) :
                           buf[i] = NL /\ \A j \in 1..(i - 1) : buf[j] # NL
                IN /\ p > next_pos
                   /\ last'.res \in {"Some", "Err"} /\ Len(out') = Len(out) + 1
                   /\ buf' = SubSeq(buf, p + 1, Len(buf))
                   /\ next_pos' = 0 /\ last'.upto = 0
       ]_codecvars

\* after one frame was taken off, a call on the rest, which holds the start of
\* the next frame and no delimiter, has moved the cursor to the buffer's end
C24_Witness ==
  /\ Len(out) >= 1 /\ last.res = "None" /\ last.from = 0
  /\ Len(buf) >= 1 /\ next_pos = Len(buf) /\ stream # <<>>

(* ------------------- run_client: what a failure stops ------------------ *)
(* run_client as main.rs awaits it on the main task: the bind, the accept  *)
(* loop (server_loop), the dispatch loop (receiving_loop) and connect_known *)
(* joined in one future, and the tasks spawned for connections. A panic     *)
(* inside a spawned task ends that task; a panic inside the joined future   *)
(* unwinds run_client and main.                                             *)
(***************************************************************************)
\* sockets (accepted or dialed) during a run
NSocks == 2

Socks == 1..NSocks
\* the failures a connection can meet after its task was spawned
TaskFailures == {"hello", "handshake", "read", "write"}

VARIABLES
  proc,            \* run_client: "bind", "up", "bind_failed", "panicked"
  server_loop,     \* the accept loop is being polled
  receiving_loop,  \* the dispatch loop is being polled
  dir,             \* dir[i]: socket i comes from accept ("in") or connect ("out")
  st,              \* st[i]: how far socket i got
  failed           \* failed[i]: failures the task of socket i has met

bootvars == <<proc, server_loop, receiving_loop, dir, st, failed>>

BootInit ==
  /\ proc = "bind"
  /\ server_loop = FALSE
  /\ receiving_loop = FALSE
  /\ dir \in [Socks -> {"in", "out"}]
  /\ st = [i \in Socks |-> "new"]
  /\ failed = [i \in Socks |-> {}]

BootTypeOK ==
  /\ proc \in {"bind", "up", "bind_failed", "panicked"}
  /\ server_loop \in BOOLEAN /\ receiving_loop \in BOOLEAN
  /\ dir \in [Socks -> {"in", "out"}]
  /\ st \in [Socks -> {"new", "accept_err", "connect_err", "handle", "task", "ended",
                       "task_panicked", "loop_panicked"}]
  /\ failed \in [Socks -> SUBSET TaskFailures]

\* line 160: TcpListener::bind(&addr).await?; on Ok the three futures are
\* joined (line 213), on Err run_client returns the error
bind(ok) ==
  /\ proc = "bind"
  /\ proc' = IF ok THEN "up" ELSE "bind_failed"
  /\ server_loop' = ok
  /\ receiving_loop' = ok
  /\ UNCHANGED <<dir, st, failed>>

\* lines 163-171: incoming() yields a stream, or an error that filter_map
\* logs and drops; for_each calls handle_connection on the stream
accept(i, ok) ==
  /\ proc = "up" /\ server_loop
  /\ dir[i] = "in" /\ st[i] = "new"
  /\ \A j \in Socks : dir[j] = "in" => st[j] # "handle"
  /\ st' = [st EXCEPT ![i] = IF ok THEN "handle" ELSE "accept_err"]
  /\ UNCHANGED <<proc, server_loop, receiving_loop, dir, failed>>

\* lines 199-211: the task spawned for a known peer: connect, then
\* handle_connection inside that task, or the logged connect error
connect(i, ok) ==
  /\ proc = "up"
  /\ dir[i] = "out" /\ st[i] = "new"
  /\ st' = [st EXCEPT ![i] = IF ok THEN "handle" ELSE "connect_err"]
  /\ UNCHANGED <<proc, server_loop, receiving_loop, dir, failed>>

\* lines 85-94, 149: socket.peer_addr().unwrap(), then the task is spawned.
\* The unwrap panics in the caller: for an accepted socket that is the
\* for_each of server_loop, polled by join! in run_client on the main task;
\* for a dialed socket it is the task spawned by connect_known
peer_addr(i, ok) ==
  /\ proc = "up"
  /\ st[i] = "handle"
  /\ st' = [st EXCEPT ![i] = IF ok THEN "task"
                             ELSE IF dir[i] = "in" THEN "loop_panicked"
                             ELSE "task_panicked"]
  /\ proc' = IF ~ok /\ dir[i] = "in" THEN "panicked" ELSE proc
  /\ server_loop' = IF ~ok /\ dir[i] = "in" THEN FALSE ELSE server_loop
  /\ receiving_loop' = IF ~ok /\ dir[i] = "in" THEN FALSE ELSE receiving_loop
  /\ UNCHANGED <<dir, failed>>

\* lines 94-145, 181-184: failures inside or about a spawned connection: a
\* failed Hello write ends the task, a failed handshake, a read error and a
\* failed write of the dispatch loop are logged
task_failure(i, f) ==
  /\ proc = "up"
  /\ st[i] = "task"
  /\ f \notin failed[i]
  /\ f = "hello" => failed[i] = {}
  /\ f = "handshake" => failed[i] = {}
  /\ failed' = [failed EXCEPT ![i] = @ \cup {f}]
  /\ st' = [st EXCEPT ![i] = IF f = "hello" THEN "ended" ELSE @]
  /\ UNCHANGED <<proc, server_loop, receiving_loop, dir>>

\* lines 119, 141: end of stream: the task leaves its loop and ends
task_end(i) ==
  /\ proc = "up"
  /\ st[i] = "task"
  /\ st' = [st EXCEPT ![i] = "ended"]
  /\ UNCHANGED <<proc, server_loop, receiving_loop, dir, failed>>

\* C19: no connection failure is fatal. Whatever accept errors, connect
\* errors, peer-address failures, Hello-write failures, handshake failures and
\* read or write errors have happened, run_client is still running with its
\* accept loop and its dispatch loop; only a failed bind ends it.
C19_NoFatalConnectionFailure ==
  /\ proc \in {"bind", "up", "bind_failed"}
  /\ proc = "up" => server_loop /\ receiving_loop

(* --------------------------- specifications ---------------------------- *)
allvars == <<vars, netvars, codecvars, bootvars>>

\* the components a specification does not run stay as they are
NodeIdle == Init /\ peer = [c \in Conns |-> 1]
CodecIdle ==
  /\ input = <<>> /\ nenc = 0 /\ stream = <<>> /\ buf = <<>> /\ next_pos = 0
  /\ out = <<>> /\ last = [res |-> "Start", from |-> 0, upto |-> 0]
BootIdle == BootInit /\ dir = [i \in Socks |-> "in"]

\* one node with NConns connections whose remote ends are the environment
Next ==
  \/ (\E c \in Conns : spawn(c)) /\ UNCHANGED <<netvars, codecvars, bootvars>>
  \/ (\E c \in Conns, ok \in BOOLEAN : hello_sent(c, ok)) /\ UNCHANGED <<netvars, codecvars, bootvars>>
  \/ (\E c \in Conns, item \in ReadItem : handshake(c, item)) /\ UNCHANGED <<netvars, codecvars, bootvars>>
  \/ (\E c \in Conns : add_new(c)) /\ UNCHANGED <<netvars, codecvars, bootvars>>
  \/ (\E c \in Conns, item \in ReadItem : loop_read(c, item)) /\ UNCHANGED <<netvars, codecvars, bootvars>>
  \/ (\E c \in Conns : forward(c)) /\ UNCHANGED <<netvars, codecvars, bootvars>>
  \/ (\E c \in Conns : loop_terminator(c)) /\ UNCHANGED <<netvars, codecvars, bootvars>>
  \/ (\E c \in Conns : loop_terminator_err(c)) /\ UNCHANGED <<netvars, codecvars, bootvars>>
  \/ (\E c \in Conns, ok \in BOOLEAN : terminate_sent(c, ok)) /\ UNCHANGED <<netvars, codecvars, bootvars>>
  \/ (\E c \in Conns : handler_remove(c)) /\ UNCHANGED <<netvars, codecvars, bootvars>>
  \/ dispatch_Hello /\ UNCHANGED <<netvars, codecvars, bootvars>>
  \/ dispatch_Pong /\ UNCHANGED <<netvars, codecvars, bootvars>>
  \/ dispatch_Ping /\ UNCHANGED <<netvars, codecvars, bootvars>>
  \/ (\E ok \in BOOLEAN : send_done(ok)) /\ UNCHANGED <<netvars, codecvars, bootvars>>
  \/ dispatch_Terminate /\ UNCHANGED <<netvars, codecvars, bootvars>>

SpecInit == Init /\ NetInit /\ CodecIdle /\ BootIdle
Spec == SpecInit /\ [][Next]_allvars

\* the same node under the tokio scheduler, which polls every task that can
\* make a step, with socket writes that complete: receiving_loop and every
\* handler task keep running; frames from the peers are under no obligation
NodeFairness ==
  /\ WF_allvars(NodeDispatch /\ UNCHANGED <<netvars, codecvars, bootvars>>)
  /\ \A c \in Conns :
       WF_allvars(NodeHandler(c) /\ UNCHANGED <<netvars, codecvars, bootvars>>)

\* the node once connection 1 has completed its Hello exchange: its handler
\* is in the loop and its entry is in the registry; the others are not
\* connected yet
RegisteredInit ==
  /\ peer \in [Conns -> Addrs]
  /\ \A c \in Conns : \A a \in 1..(peer[c] - 1) : \E b \in 1..(c - 1) : peer[b] = a
  /\ pc = [c \in Conns |-> IF c = 1 THEN "loop" ELSE "idle"]
  /\ writer = [c \in Conns |-> FALSE]
  /\ terminator = [c \in Conns |-> "open"]
  /\ first = [c \in Conns |-> IF c = 1 THEN "Hello" ELSE "none"]
  /\ nread = 0
  /\ pend = [c \in Conns |-> "none"]
  /\ sock = [c \in Conns |-> IF c = 1 THEN <<<<"Hello", TRUE>>>> ELSE <<>>]
  /\ shut = [c \in Conns |-> 0]
  /\ sinks = {Entry(peer[1], 1)}
  /\ lock = "free"
  /\ rx = <<>>
  /\ dpc = "recv"
  /\ dconn = 0
  /\ dres = Found("none", 0)
  /\ removed = [c \in Conns |-> 0]
  /\ lastop = [a \in Addrs |-> IF a = peer[1] THEN "add" ELSE "none"]

SpecFairInit == RegisteredInit /\ NetInit /\ CodecIdle /\ BootIdle
SpecFair == SpecFairInit /\ [][Next]_allvars /\ NodeFairness

\* two nodes and the connection between them
NetNext ==
  \/ (\E n \in Nodes : net_spawn(n)) /\ UNCHANGED <<vars, codecvars, bootvars>>
  \/ (\E n \in Nodes : net_hello_sent(n)) /\ UNCHANGED <<vars, codecvars, bootvars>>
  \/ (\E n \in Nodes : net_handshake(n)) /\ UNCHANGED <<vars, codecvars, bootvars>>
  \/ (\E n \in Nodes : net_add_new(n)) /\ UNCHANGED <<vars, codecvars, bootvars>>
  \/ (\E n \in Nodes : net_loop_read(n)) /\ UNCHANGED <<vars, codecvars, bootvars>>
  \/ (\E n \in Nodes : net_forward(n)) /\ UNCHANGED <<vars, codecvars, bootvars>>
  \/ (\E n \in Nodes : net_loop_terminator(n)) /\ UNCHANGED <<vars, codecvars, bootvars>>
  \/ (\E n \in Nodes : net_terminate_sent(n)) /\ UNCHANGED <<vars, codecvars, bootvars>>
  \/ (\E n \in Nodes : net_handler_remove(n)) /\ UNCHANGED <<vars, codecvars, bootvars>>
  \/ (\E n \in Nodes : net_dispatch_log(n)) /\ UNCHANGED <<vars, codecvars, bootvars>>
  \/ (\E n \in Nodes : net_dispatch_Ping(n)) /\ UNCHANGED <<vars, codecvars, bootvars>>
  \/ (\E n \in Nodes : net_send_done(n)) /\ UNCHANGED <<vars, codecvars, bootvars>>
  \/ (\E n \in Nodes : net_dispatch_Terminate(n)) /\ UNCHANGED <<vars, codecvars, bootvars>>
  \/ (\E n \in Nodes, m \in SendKinds : net_api_send(n, m)) /\ UNCHANGED <<vars, codecvars, bootvars>>

\* the tokio scheduler polls every task that can make a step: the handler
\* task and receiving_loop of each node keep running; calls from outside are
\* under no obligation
NetFairness ==
  \A n \in Nodes :
    /\ WF_allvars(NetHandler(n) /\ UNCHANGED <<vars, codecvars, bootvars>>)
    /\ WF_allvars(NetDispatch(n) /\ UNCHANGED <<vars, codecvars, bootvars>>)

SpecNetInit == NodeIdle /\ NetInit /\ CodecIdle /\ BootIdle
SpecNet == SpecNetInit /\ [][NetNext]_allvars /\ NetFairness

\* the codec between a writer and a reader
CodecNext ==
  \/ codec_encode /\ UNCHANGED <<vars, netvars, bootvars>>
  \/ (\E k \in 1..Len(stream) : codec_read(k)) /\ UNCHANGED <<vars, netvars, bootvars>>
  \/ codec_decode /\ UNCHANGED <<vars, netvars, bootvars>>

SpecCodecInit == NodeIdle /\ NetInit /\ CodecInit /\ BootIdle
SpecCodec == SpecCodecInit /\ [][CodecNext]_allvars

\* run_client and the failures of its connections
BootNext ==
  \/ (\E ok \in BOOLEAN : bind(ok)) /\ UNCHANGED <<vars, netvars, codecvars>>
  \/ (\E i \in Socks, ok \in BOOLEAN : accept(i, ok)) /\ UNCHANGED <<vars, netvars, codecvars>>
  \/ (\E i \in Socks, ok \in BOOLEAN : connect(i, ok)) /\ UNCHANGED <<vars, netvars, codecvars>>
  \/ (\E i \in Socks, ok \in BOOLEAN : peer_addr(i, ok)) /\ UNCHANGED <<vars, netvars, codecvars>>
  \/ (\E i \in Socks, f \in TaskFailures : task_failure(i, f)) /\ UNCHANGED <<vars, netvars, codecvars>>
  \/ (\E i \in Socks : task_end(i)) /\ UNCHANGED <<vars, netvars, codecvars>>

SpecBootInit == NodeIdle /\ NetInit /\ CodecIdle /\ BootInit
SpecBoot == SpecBootInit /\ [][BootNext]_allvars
====
